---------------------------- MODULE Spec2Model ----------------------------
(***************************************************************************)
(* Model of the local-llm chat front end:                                  *)
(*   - src/__main__.py : the interactive chat loop and the Ctrl+C handler  *)
(*   - src/web/server.py : WebServer.send_message / on_websocket /         *)
(*     websocket_listener (the framed websocket transport)                 *)
(*                                                                         *)
(* ChatHistory (append / embed_chat / reset / kv_cache) and the            *)
(* StreamingResponse returned by model.generate() are used by the chat     *)
(* loop but their code is not part of the sources; they are modelled from  *)
(* sections 3, 4.1 and 4.2 of the specification.                           *)
(*                                                                         *)
(* server.py is modelled with its names resolved (struct, json and time    *)
(* imported, msg_count_tx / msg_count_rx starting at 0, log_level 0).      *)
(***************************************************************************)
EXTENDS Integers, Sequences, FiniteSets, TLC

\* ------------------------------------------------------------------ bounds
MaxTurns == 2
MaxNewTokens == 2
MaxClock == 4
MaxInterrupts == 2
MaxRecv == 2
MaxMsgId == 2

\* ------------------------------------------------------- program constants
\* on_interrupt: "if time_diff > 2.0"
Debounce == 2

Tokens == {"A", "B"}
UserTexts == {<<"u">>, <<"u", "v">>}
\* the pre-computed embedding of an image part
ImageEmbedding == <<"i", "i">>

VARIABLES
    \* --- src/__main__.py
    pc,              \* position of the chat loop
    no_streaming,    \* args.no_streaming
    interrupt_chat,  \* global interrupt_chat
    last_interrupt,  \* global last_interrupt
    embedding,       \* local `embedding` of the chat loop
    position,        \* local `position` of the chat loop
    output,          \* local `output`: the generation session
    bot_reply,       \* local `bot_reply`: index of the referenced entry
    error,           \* the exception that ended the process ("" if none)
    \* --- chat_history
    entries,
    embedCursor,
    kv_cache,
    \* --- environment and history variables
    clock,           \* time.perf_counter(), in seconds
    nInterrupts,     \* SIGINTs delivered so far
    turns,           \* prompts read so far
    preGen,          \* the conversation when model.generate() was called
    produced,        \* the tokens the backend emitted in this generation
    abortAt,         \* where the generation stood when interrupt_chat was set
    \* --- src/web/server.py
    msg_count_rx,    \* self.msg_count_rx
    listener,        \* per connection: its websocket_listener thread
    inbox,           \* per connection: messages sent by the client, not yet
                     \* returned by websocket.recv()
    calls,           \* number of on_message calls so far
    lastCall,        \* the arguments of the latest on_message call
    rxLog,           \* what the latest pass of a listener logged
    nRecv,           \* messages the clients have sent so far
    msg_count_tx,    \* self.msg_count_tx
    ws_queue,        \* self.ws_queue
    caller,          \* per calling thread: its position in send_message
    sender,          \* per connection: position of its on_websocket thread
    held,            \* per connection: the frame its thread took off ws_queue
    wsOpen,          \* per connection: the websocket is open
    wire,            \* per connection: the frames websocket.send() transmitted
    lost,            \* frames taken off ws_queue whose websocket.send() raised
    enqLog,          \* every ws_queue.put() so far, in order
    acceptMark,      \* per connection: Len(enqLog) when it was accepted
    acceptedAfter,   \* per connection: the connections that had already
                     \* closed when it was accepted
    nSends,          \* send_message calls so far
    txError          \* the exception the latest send_message call raised

chatVars == <<pc, no_streaming, interrupt_chat, last_interrupt, embedding,
              position, output, bot_reply, error, entries, embedCursor,
              kv_cache, clock, nInterrupts, turns, preGen, produced,
              abortAt>>

rxVars == <<msg_count_rx, listener, inbox, calls, lastCall, rxLog, nRecv>>

txVars == <<msg_count_tx, ws_queue, caller, sender, held, wsOpen, wire, lost,
            enqLog, acceptMark, acceptedAfter, nSends, txError>>

\* ------------------------------------------------------------ ChatHistory
NoCache == [gen |-> 0, len |-> 0]

TextPart(text) == [kind |-> "text", val |-> text]
ImagePart == [kind |-> "image", val |-> ImageEmbedding]

HasText(entry) == \E i \in 1..Len(entry.parts) : entry.parts[i].kind = "text"
HasImage(entry) == \E i \in 1..Len(entry.parts) : entry.parts[i].kind = "image"
\* `'image' in entry and 'text' not in entry`
ImageOnly(entry) == HasImage(entry) /\ ~HasText(entry)

RECURSIVE Concat(_)
Concat(seqs) == IF seqs = <<>> THEN <<>> ELSE Head(seqs) \o Concat(Tail(seqs))

\* the embedding of one entry: its parts in order, text through the text
\* embedding function (one vector per token), images through their cache
EmbedEntry(entry) == Concat([i \in 1..Len(entry.parts) |-> entry.parts[i].val])

\* the embedding of entries from+1 .. Len(es), in entry order
EmbedRange(es, from) ==
    Concat([i \in 1..(Len(es) - from) |-> EmbedEntry(es[from + i])])

\* the text of an entry (its text parts, concatenated)
EntryText(entry) ==
    Concat([i \in 1..Len(entry.parts) |->
              IF entry.parts[i].kind = "text" THEN entry.parts[i].val ELSE <<>>])

\* append(role, content): a new entry, or a merge into an open last entry
append(es, role, part) ==
    IF es # <<>> /\ es[Len(es)].role = role /\ ImageOnly(es[Len(es)])
    THEN [es EXCEPT ![Len(es)].parts = Append(@, part)]
    ELSE Append(es, [role |-> role, parts |-> <<part>>])

\* variant: embed() that re-embeds the whole conversation on every call
embed_chat_full(es, cursor) ==
    IF es # <<>> /\ ImageOnly(es[Len(es)])
    THEN [ok |-> FALSE, embedding |-> <<>>, position |-> 0, cursor |-> cursor]
    ELSE [ok |-> TRUE,
          embedding |-> EmbedRange(es, 0),
          position |-> 0,
          cursor |-> Len(es)]

\* embed(): the result of a call on (es, cursor)
embed_chat(es, cursor) ==
    IF es # <<>> /\ ImageOnly(es[Len(es)])
    THEN [ok |-> FALSE, embedding |-> <<>>, position |-> 0, cursor |-> cursor]
    ELSE [ok |-> TRUE,
          embedding |-> EmbedRange(es, cursor),
          position |-> Len(EmbedRange(SubSeq(es, 1, cursor), 0)),
          cursor |-> Len(es)]

\* reset(): entries, cursor and cache handle, as one step
reset == [entries |-> <<>>, embedCursor |-> 0, kv_cache |-> NoCache]

\* `entry.text = text` through a live reference
SetText(es, idx, text) ==
    LET ps == es[idx].parts
        ti == CHOOSE i \in 1..Len(ps) : ps[i].kind = "text"
    IN [es EXCEPT ![idx].parts[ti].val = text]

\* ------------------------------------------------------ GenerationSession
NoSession == [state |-> "None", out |-> <<>>, kv_cache |-> NoCache,
              gen |-> 0, base |-> 0, cancelled |-> FALSE]

Terminal == {"Completed", "Cancelled", "Failed"}

\* start(): Pending -> Streaming
SessionStart(gen, emb, cache) ==
    [state |-> "Streaming", out |-> <<>>, kv_cache |-> NoCache,
     gen |-> gen, base |-> cache.len + Len(emb), cancelled |-> FALSE]

\* the handle a session exposes once Completed or Cancelled
FinalHandle(s) == [gen |-> s.gen, len |-> s.base + Len(s.out)]

\* one produced token extends the output buffer
SessionToken(s, tok) == [s EXCEPT !.out = Append(@, tok)]

SessionComplete(s) ==
    [s EXCEPT !.state = "Completed", !.kv_cache = FinalHandle(s)]

SessionFail(s) == [s EXCEPT !.state = "Failed"]

\* variant: cancel() that marks the session Cancelled whatever its state
SessionStop_always(s) ==
    [s EXCEPT !.state = "Cancelled", !.cancelled = TRUE,
              !.kv_cache = FinalHandle(s)]

\* variant: cancel() that throws the output buffer away
SessionStop_discard(s) ==
    IF s.state = "Streaming"
    THEN [s EXCEPT !.state = "Cancelled", !.cancelled = TRUE, !.out = <<>>,
                   !.kv_cache = [gen |-> s.gen, len |-> s.base]]
    ELSE s

\* cancel(): a no-op once terminal; otherwise the session, suspended at a
\* token boundary, becomes Cancelled and keeps what it produced
SessionStop(s) ==
    IF s.state = "Streaming"
    THEN [s EXCEPT !.state = "Cancelled", !.cancelled = TRUE,
                   !.kv_cache = FinalHandle(s)]
    ELSE s


\* ------------------------------------------------- src/__main__.py: SIGINT
\* variant: the window test written ">=" (an interrupt exactly 2 s after the
\* previous one counts as a new abort request)
Classify_ge(time_diff) == IF time_diff >= Debounce THEN "abort" ELSE "exit"

\* the two-tier policy of on_interrupt: "abort" sets interrupt_chat,
\* "exit" is sys.exit(0)
Classify(time_diff) == IF time_diff > Debounce THEN "abort" ELSE "exit"

Running == pc \notin {"done", "crashed", "exited"}

\* history: where the generation stood when interrupt_chat went from False to
\* True (the session streaming then, if any, and the tokens it had produced);
\* kept until that generation's write-back
NoAbort == [gen |-> -1, n |-> 0]

AbortNow ==
    IF output.state = "Streaming"
    THEN [gen |-> output.gen, n |-> Len(produced)]
    ELSE NoAbort

on_interrupt ==
    /\ Running
    /\ nInterrupts < MaxInterrupts
    /\ nInterrupts' = nInterrupts + 1
    /\ LET curr_time == clock
           time_diff == curr_time - last_interrupt
       IN /\ last_interrupt' = curr_time
          /\ IF Classify(time_diff) = "abort"
             THEN /\ interrupt_chat' = TRUE
                  /\ pc' = pc
                  /\ abortAt' = IF interrupt_chat THEN abortAt ELSE AbortNow
             ELSE /\ interrupt_chat' = interrupt_chat
                  /\ pc' = "exited"
                  /\ abortAt' = abortAt
    /\ UNCHANGED <<no_streaming, embedding, position, output, bot_reply, error,
                   entries, embedCursor, kv_cache, clock, turns, preGen>>
    /\ UNCHANGED produced
    /\ UNCHANGED rxVars
    /\ UNCHANGED txVars

\* time.perf_counter() advances
Tick ==
    /\ Running
    /\ clock < MaxClock
    /\ clock' = clock + 1
    /\ UNCHANGED <<pc, no_streaming, interrupt_chat, last_interrupt, embedding,
                   position, output, bot_reply, error, entries, embedCursor,
                   kv_cache, nInterrupts, turns, preGen>>
    /\ UNCHANGED produced
    /\ UNCHANGED rxVars
    /\ UNCHANGED txVars
    /\ UNCHANGED abortAt

\* ------------------------------------------- src/__main__.py: the chat loop
Crash(exc) == pc' = "crashed" /\ error' = exc

\* the prompt list is exhausted: break
PromptsExhausted ==
    /\ pc = "prompt"
    /\ pc' = "done"
    /\ UNCHANGED <<no_streaming, interrupt_chat, last_interrupt, embedding,
                   position, output, bot_reply, error, entries, embedCursor,
                   kv_cache, clock, nInterrupts, turns, preGen>>
    /\ UNCHANGED produced
    /\ UNCHANGED rxVars
    /\ UNCHANGED txVars
    /\ UNCHANGED abortAt

\* variant: the reset command clears the entries and the cursor but leaves
\* the cache handle in place
PromptReset_keepCache ==
    /\ pc = "prompt"
    /\ turns < MaxTurns
    /\ turns' = turns + 1
    /\ entries' = <<>>
    /\ embedCursor' = 0
    /\ UNCHANGED <<pc, no_streaming, interrupt_chat, last_interrupt, embedding,
                   position, output, bot_reply, error, clock, nInterrupts,
                   preGen, kv_cache, produced>>
    /\ UNCHANGED rxVars
    /\ UNCHANGED txVars
    /\ UNCHANGED abortAt

\* variant: the reset is also carried out while a reply is streaming (the
\* way a handler running on another thread would)
PromptReset_anytime ==
    /\ pc \in {"prompt", "stream"}
    /\ turns < MaxTurns
    /\ turns' = turns + 1
    /\ entries' = reset.entries
    /\ embedCursor' = reset.embedCursor
    /\ kv_cache' = reset.kv_cache
    /\ UNCHANGED <<pc, no_streaming, interrupt_chat, last_interrupt, embedding,
                   position, output, bot_reply, error, clock, nInterrupts,
                   preGen>>
    /\ UNCHANGED produced
    /\ UNCHANGED rxVars
    /\ UNCHANGED txVars
    /\ UNCHANGED abortAt

\* 'reset' / 'clear': chat_history.reset(); continue
PromptReset ==
    /\ pc = "prompt"
    /\ turns < MaxTurns
    /\ turns' = turns + 1
    /\ entries' = reset.entries
    /\ embedCursor' = reset.embedCursor
    /\ kv_cache' = reset.kv_cache
    /\ UNCHANGED <<pc, no_streaming, interrupt_chat, last_interrupt, embedding,
                   position, output, bot_reply, error, clock, nInterrupts,
                   preGen>>
    /\ UNCHANGED produced
    /\ UNCHANGED rxVars
    /\ UNCHANGED txVars
    /\ UNCHANGED abortAt

\* a prompt naming a .txt / .json file that cannot be opened: load_prompts
\* raises before the conversation is touched
PromptFileMissing ==
    /\ pc = "prompt"
    /\ turns < MaxTurns
    /\ turns' = turns + 1
    /\ Crash("FileNotFoundError")
    /\ UNCHANGED <<no_streaming, interrupt_chat, last_interrupt, embedding,
                   position, output, bot_reply, entries, embedCursor,
                   kv_cache, clock, nInterrupts, preGen>>
    /\ UNCHANGED produced
    /\ UNCHANGED rxVars
    /\ UNCHANGED txVars
    /\ UNCHANGED abortAt

\* variant: the image-only guard of the chat loop is missing
AfterAppend_noGuard(es) == "embed"

\* the entry returned by append is image-only: wait for the text prompt
AfterAppend(es) == IF ImageOnly(es[Len(es)]) THEN "prompt" ELSE "embed"

\* a text prompt (typed, or loaded from a file) or an image:
\* entry = chat_history.append(role='user', msg=user_prompt)
PromptMessage ==
    /\ pc = "prompt"
    /\ turns < MaxTurns
    /\ turns' = turns + 1
    /\ \E part \in {ImagePart} \cup {TextPart(t) : t \in UserTexts} :
          /\ entries' = append(entries, "user", part)
          /\ pc' = AfterAppend(entries')
    /\ UNCHANGED <<no_streaming, interrupt_chat, last_interrupt, embedding,
                   position, output, bot_reply, error, embedCursor, kv_cache,
                   clock, nInterrupts, preGen>>
    /\ UNCHANGED produced
    /\ UNCHANGED rxVars
    /\ UNCHANGED txVars
    /\ UNCHANGED abortAt

\* embedding, position = chat_history.embed_chat()
MainEmbed ==
    /\ pc = "embed"
    /\ LET r == embed_chat(entries, embedCursor)
       IN IF r.ok
          THEN /\ embedding' = r.embedding
               /\ position' = r.position
               /\ embedCursor' = r.cursor
               /\ pc' = "generate"
               /\ error' = error
          ELSE /\ Crash("IncompleteEntry")
               /\ UNCHANGED <<embedding, position, embedCursor>>
    /\ UNCHANGED <<no_streaming, interrupt_chat, last_interrupt, output,
                   bot_reply, entries, kv_cache, clock, nInterrupts, turns,
                   preGen>>
    /\ UNCHANGED produced
    /\ UNCHANGED rxVars
    /\ UNCHANGED txVars
    /\ UNCHANGED abortAt

Conversation == [entries |-> entries, embedCursor |-> embedCursor,
                 kv_cache |-> kv_cache]

\* model.generate() raises
GenerateFails ==
    /\ pc = "generate"
    /\ preGen' = Conversation
    /\ output' = SessionFail(SessionStart(output.gen + 1, embedding, kv_cache))
    /\ Crash("BackendError")
    /\ UNCHANGED <<no_streaming, interrupt_chat, last_interrupt, embedding,
                   position, bot_reply, entries, embedCursor, kv_cache, clock,
                   nInterrupts, turns>>
    /\ produced' = <<>>
    /\ UNCHANGED rxVars
    /\ UNCHANGED txVars
    /\ UNCHANGED abortAt

\* streaming: output = model.generate(...) returns the iterator, then
\* bot_reply = chat_history.append(role='bot', text='')
GenerateStreaming ==
    /\ pc = "generate"
    /\ ~no_streaming
    /\ preGen' = Conversation
    /\ output' = SessionStart(output.gen + 1, embedding, kv_cache)
    /\ entries' = append(entries, "bot", TextPart(<<>>))
    /\ bot_reply' = Len(entries')
    /\ pc' = "stream"
    /\ UNCHANGED <<no_streaming, interrupt_chat, last_interrupt, embedding,
                   position, error, embedCursor, kv_cache, clock, nInterrupts,
                   turns>>
    /\ produced' = <<>>
    /\ UNCHANGED rxVars
    /\ UNCHANGED txVars
    /\ UNCHANGED abortAt

RECURSIVE SeqsUpTo(_, _)
SeqsUpTo(S, n) ==
    IF n = 0 THEN {<<>>}
    ELSE SeqsUpTo(S, n - 1) \cup
         {Append(s, x) : s \in {t \in SeqsUpTo(S, n - 1) : Len(t) = n - 1}, x \in S}

\* --no-streaming: generate() blocks and returns the full reply as a string;
\* bot_reply = append(role='bot', text=''); bot_reply.text = output
GenerateBlocking ==
    /\ pc = "generate"
    /\ no_streaming
    /\ preGen' = Conversation
    /\ \E toks \in SeqsUpTo(Tokens, MaxNewTokens) :
          /\ produced' = toks
          /\ output' = SessionComplete(
                 [SessionStart(output.gen + 1, embedding, kv_cache)
                     EXCEPT !.out = toks])
          /\ LET es == append(entries, "bot", TextPart(<<>>))
             IN /\ bot_reply' = Len(es)
                /\ entries' = SetText(es, Len(es), toks)
    /\ pc' = "writeback"
    /\ UNCHANGED <<no_streaming, interrupt_chat, last_interrupt, embedding,
                   position, error, embedCursor, kv_cache, clock, nInterrupts,
                   turns>>
    /\ UNCHANGED rxVars
    /\ UNCHANGED txVars
    /\ UNCHANGED abortAt

\* variant: `bot_reply.text = token` (assignment instead of +=)
ConsumeToken_assign(es, idx, tok) == SetText(es, idx, <<tok>>)

\* variant: the text update lands on the conversation's first entry instead
\* of the entry the reference designates
ConsumeToken_first(es, idx, tok) == SetText(es, 1, EntryText(es[1]) \o <<tok>>)

\* for token in output: bot_reply.text += token
ConsumeToken(es, idx, tok) == SetText(es, idx, EntryText(es[idx]) \o <<tok>>)

\* variant: the loop pulls the next token without looking at interrupt_chat
PullToken_skipCheck ==
    /\ pc = "stream"
    /\ Len(output.out) < MaxNewTokens
    /\ \E tok \in Tokens :
          /\ output' = SessionToken(output, tok)
          /\ entries' = ConsumeToken(entries, bot_reply, tok)
          /\ produced' = Append(produced, tok)
    /\ pc' = "stream"
    /\ UNCHANGED <<no_streaming, interrupt_chat, last_interrupt, embedding,
                   position, bot_reply, error, embedCursor, kv_cache, clock,
                   nInterrupts, turns, preGen>>
    /\ UNCHANGED rxVars
    /\ UNCHANGED txVars
    /\ UNCHANGED abortAt

\* for token in output: (one pull of the iterator and the loop body's append)
PullToken ==
    /\ pc = "stream"
    /\ Len(output.out) < MaxNewTokens
    /\ \E tok \in Tokens :
          /\ output' = SessionToken(output, tok)
          /\ entries' = ConsumeToken(entries, bot_reply, tok)
          /\ produced' = Append(produced, tok)
    /\ pc' = "check"
    /\ UNCHANGED <<no_streaming, interrupt_chat, last_interrupt, embedding,
                   position, bot_reply, error, embedCursor, kv_cache, clock,
                   nInterrupts, turns, preGen>>
    /\ UNCHANGED rxVars
    /\ UNCHANGED txVars
    /\ UNCHANGED abortAt

\* the iterator is exhausted (stop token, end of sequence or max_new_tokens)
PullStop ==
    /\ pc = "stream"
    /\ output' = SessionComplete(output)
    /\ pc' = "writeback"
    /\ UNCHANGED <<no_streaming, interrupt_chat, last_interrupt, embedding,
                   position, bot_reply, error, entries, embedCursor, kv_cache,
                   clock, nInterrupts, turns, preGen>>
    /\ UNCHANGED produced
    /\ UNCHANGED rxVars
    /\ UNCHANGED txVars
    /\ UNCHANGED abortAt

\* the backend raises while producing the next token
PullFails ==
    /\ pc = "stream"
    /\ output' = SessionFail(output)
    /\ Crash("BackendError")
    /\ UNCHANGED <<no_streaming, interrupt_chat, last_interrupt, embedding,
                   position, bot_reply, entries, embedCursor, kv_cache, clock,
                   nInterrupts, turns, preGen>>
    /\ UNCHANGED produced
    /\ UNCHANGED rxVars
    /\ UNCHANGED txVars
    /\ UNCHANGED abortAt

\* if interrupt_chat: output.stop(); interrupt_chat = False; break
CheckInterrupt ==
    /\ pc = "check"
    /\ IF interrupt_chat
       THEN /\ output' = SessionStop(output)
            /\ interrupt_chat' = FALSE
            /\ pc' = "writeback"
       ELSE /\ pc' = "stream"
            /\ UNCHANGED <<output, interrupt_chat>>
    /\ UNCHANGED <<no_streaming, last_interrupt, embedding, position,
                   bot_reply, error, entries, embedCursor, kv_cache, clock,
                   nInterrupts, turns, preGen>>
    /\ UNCHANGED produced
    /\ UNCHANGED rxVars
    /\ UNCHANGED txVars
    /\ UNCHANGED abortAt

\* chat_history.kv_cache = output.kv_cache; bot_reply.text = output.output_text
\* (with --no-streaming `output` is a str, which has neither attribute)
WriteBack ==
    /\ pc = "writeback"
    /\ IF no_streaming
       THEN /\ Crash("AttributeError")
            /\ UNCHANGED <<kv_cache, entries>>
       ELSE /\ kv_cache' = output.kv_cache
            /\ entries' = SetText(entries, bot_reply, output.out)
            /\ pc' = "prompt"
            /\ error' = error
    /\ UNCHANGED <<no_streaming, interrupt_chat, last_interrupt, embedding,
                   position, output, bot_reply, embedCursor, clock,
                   nInterrupts, turns, preGen>>
    /\ UNCHANGED produced
    /\ UNCHANGED rxVars
    /\ UNCHANGED txVars
    /\ abortAt' = NoAbort

\* ----------------------------------------- src/web/server.py: the framing
HeaderSize == 32
Magic == 42

\* struct.pack('!Q' / '!H' / '!I'): big-endian, fixed width
RECURSIVE BE(_, _)
BE(n, w) == IF w = 0 THEN <<>> ELSE BE(n \div 256, w - 1) \o <<n % 256>>

\* struct.unpack of one big-endian field
RECURSIVE FromBE(_)
FromBE(bytes) ==
    IF bytes = <<>> THEN 0
    ELSE FromBE(SubSeq(bytes, 1, Len(bytes) - 1)) * 256 + bytes[Len(bytes)]

\* b''.join([struct.pack('!QQHHIII', id, timestamp, magic, type, size, 0, 0),
\*           payload])
EncodeFrame(id, timestamp, magic, type, size, payload) ==
    BE(id, 8) \o BE(timestamp, 8) \o BE(magic, 2) \o BE(type, 2)
        \o BE(size, 4) \o BE(0, 4) \o BE(0, 4) \o payload

\* struct.unpack_from('!QQHHIII', msg)
DecodeHeader(msg) ==
    [msg_id |-> FromBE(SubSeq(msg, 1, 8)),
     timestamp |-> FromBE(SubSeq(msg, 9, 16)),
     magic_number |-> FromBE(SubSeq(msg, 17, 18)),
     msg_type |-> FromBE(SubSeq(msg, 19, 20)),
     payload_size |-> FromBE(SubSeq(msg, 21, 24))]

\* str.encode('utf-8') / bytes(str, 'ascii') on code points below 2048
RECURSIVE Utf8Encode(_)
Utf8Encode(chars) ==
    IF chars = <<>> THEN <<>>
    ELSE (IF Head(chars) < 128 THEN <<Head(chars)>>
          ELSE <<192 + (Head(chars) \div 64), 128 + (Head(chars) % 64)>>)
         \o Utf8Encode(Tail(chars))

\* bytes.decode('utf-8'): the code points, or ok = FALSE (UnicodeDecodeError)
RECURSIVE Utf8Decode(_)
Utf8Decode(bytes) ==
    IF bytes = <<>> THEN [ok |-> TRUE, chars |-> <<>>]
    ELSE IF bytes[1] < 128
    THEN LET r == Utf8Decode(Tail(bytes))
         IN [ok |-> r.ok, chars |-> <<bytes[1]>> \o r.chars]
    ELSE IF /\ bytes[1] >= 194 /\ bytes[1] <= 223 /\ Len(bytes) >= 2
            /\ bytes[2] >= 128 /\ bytes[2] <= 191
    THEN LET r == Utf8Decode(SubSeq(bytes, 3, Len(bytes)))
         IN [ok |-> r.ok,
             chars |-> <<(bytes[1] - 192) * 64 + (bytes[2] - 128)>> \o r.chars]
    ELSE [ok |-> FALSE, chars |-> <<>>]

\* the control messages, by index: {"r":1} and {"c":1} stand for
\* {"chat_history_reset": ...} and {"client_state": "connected"}
JsonText == << <<123, 34, 114, 34, 58, 49, 125>>,
               <<123, 34, 99, 34, 58, 49, 125>> >>

\* json.dumps(obj), as code points
JsonDumps(obj) == JsonText[obj]

\* json.loads(bytes): the object, or ok = FALSE (JSONDecodeError)
JsonLoads(bytes) ==
    IF \E o \in 1..Len(JsonText) : JsonText[o] = bytes
    THEN [ok |-> TRUE, obj |-> CHOOSE o \in 1..Len(JsonText) : JsonText[o] = bytes]
    ELSE [ok |-> FALSE, obj |-> 0]

Str(chars) == [shape |-> "str", data |-> chars]
Bytes(bytes) == [shape |-> "bytes", data |-> bytes]
Obj(o) == [shape |-> "obj", data |-> <<o>>]

\* variant: payload_size taken before the conversion to bytes (the number
\* of characters of a str payload)
send_message_charSize(payload, type, timestamp, count) ==
    LET inferred == IF type # -1 THEN type
                    ELSE IF payload.shape = "str" THEN 1
                    ELSE IF payload.shape = "bytes" THEN 2
                    ELSE 0
        encoding == IF type # -1 THEN "none"
                    ELSE IF payload.shape = "str" THEN "utf-8"
                    ELSE IF payload.shape = "bytes" THEN "none"
                    ELSE "ascii"
        dumped == IF inferred = 0 /\ payload.shape = "obj"
                  THEN Str(JsonDumps(payload.data[1]))
                  ELSE payload
        ok == dumped.shape = "bytes" \/ (dumped.shape = "str" /\ encoding # "none")
        raw == IF dumped.shape = "str" THEN Utf8Encode(dumped.data) ELSE dumped.data
    IN [ok |-> ok,
        type |-> inferred,
        frame |-> IF ok
                  THEN EncodeFrame(count, timestamp, Magic, inferred,
                                   Len(dumped.data), raw)
                  ELSE <<>>]

\* send_message(payload, type, timestamp) with msg_count_tx = count: the
\* frame put on ws_queue, or ok = FALSE when bytes(payload) raises TypeError
\* (type is -1 for None)
send_message(payload, type, timestamp, count) ==
    LET inferred == IF type # -1 THEN type
                    ELSE IF payload.shape = "str" THEN 1
                    ELSE IF payload.shape = "bytes" THEN 2
                    ELSE 0
        encoding == IF type # -1 THEN "none"
                    ELSE IF payload.shape = "str" THEN "utf-8"
                    ELSE IF payload.shape = "bytes" THEN "none"
                    ELSE "ascii"
        \* if type == 0 and not isinstance(payload, str): json.dumps(payload)
        dumped == IF inferred = 0 /\ payload.shape = "obj"
                  THEN Str(JsonDumps(payload.data[1]))
                  ELSE payload
        \* bytes(payload, encoding=encoding) / bytes(payload)
        ok == dumped.shape = "bytes" \/ (dumped.shape = "str" /\ encoding # "none")
        raw == IF dumped.shape = "str" THEN Utf8Encode(dumped.data) ELSE dumped.data
    IN [ok |-> ok,
        type |-> inferred,
        frame |-> IF ok
                  THEN EncodeFrame(count, timestamp, Magic, inferred, Len(raw), raw)
                  ELSE <<>>]

\* ---------------------------------- src/web/server.py: websocket_listener
NoCall == [payload |-> Bytes(<<>>), type |-> -1, timestamp |-> 0]

\* variant: the sequence counter is resynchronised before the magic check
ListenerBody_countFirst(msg, rx) ==
    IF msg.text
    THEN [verdict |-> "drop", rx |-> rx, log |-> {"text"}, args |-> NoCall]
    ELSE IF Len(msg.data) <= HeaderSize
    THEN [verdict |-> "drop", rx |-> rx, log |-> {"size"}, args |-> NoCall]
    ELSE LET h == DecodeHeader(msg.data)
             msgPayloadSize == Len(msg.data) - HeaderSize
             payload == SubSeq(msg.data, HeaderSize + 1, Len(msg.data))
             next_rx == (IF h.msg_id # rx THEN h.msg_id ELSE rx) + 1
             log == (IF h.msg_id # rx THEN {"out_of_order"} ELSE {})
                       \cup (IF h.payload_size # msgPayloadSize
                             THEN {"payload_size"} ELSE {})
             json == JsonLoads(payload)
             text == Utf8Decode(payload)
         IN IF h.magic_number # Magic
            THEN [verdict |-> "drop", rx |-> next_rx, log |-> {"magic"},
                  args |-> NoCall]
            ELSE IF h.msg_type = 0 /\ ~json.ok
            THEN [verdict |-> "raise", rx |-> next_rx, log |-> log,
                  args |-> NoCall]
            ELSE IF h.msg_type = 1 /\ ~text.ok
            THEN [verdict |-> "raise", rx |-> next_rx, log |-> log,
                  args |-> NoCall]
            ELSE [verdict |-> "call",
                  rx |-> next_rx,
                  log |-> log,
                  args |-> [payload |-> IF h.msg_type = 0 THEN Obj(json.obj)
                                        ELSE IF h.msg_type = 1 THEN Str(text.chars)
                                        ELSE Bytes(payload),
                            type |-> h.msg_type,
                            timestamp |-> h.timestamp]]

\* variant: a frame whose declared payload_size is wrong is dropped
ListenerBody_dropMismatch(msg, rx) ==
    IF msg.text
    THEN [verdict |-> "drop", rx |-> rx, log |-> {"text"}, args |-> NoCall]
    ELSE IF Len(msg.data) <= HeaderSize
    THEN [verdict |-> "drop", rx |-> rx, log |-> {"size"}, args |-> NoCall]
    ELSE LET h == DecodeHeader(msg.data)
             msgPayloadSize == Len(msg.data) - HeaderSize
             payload == SubSeq(msg.data, HeaderSize + 1, Len(msg.data))
             next_rx == (IF h.msg_id # rx THEN h.msg_id ELSE rx) + 1
             log == (IF h.msg_id # rx THEN {"out_of_order"} ELSE {})
                       \cup (IF h.payload_size # msgPayloadSize
                             THEN {"payload_size"} ELSE {})
             json == JsonLoads(payload)
             text == Utf8Decode(payload)
         IN IF h.magic_number # Magic
            THEN [verdict |-> "drop", rx |-> rx, log |-> {"magic"},
                  args |-> NoCall]
            ELSE IF h.payload_size # msgPayloadSize
            THEN [verdict |-> "drop", rx |-> next_rx, log |-> log,
                  args |-> NoCall]
            ELSE IF h.msg_type = 0 /\ ~json.ok
            THEN [verdict |-> "raise", rx |-> next_rx, log |-> log,
                  args |-> NoCall]
            ELSE IF h.msg_type = 1 /\ ~text.ok
            THEN [verdict |-> "raise", rx |-> next_rx, log |-> log,
                  args |-> NoCall]
            ELSE [verdict |-> "call",
                  rx |-> next_rx,
                  log |-> log,
                  args |-> [payload |-> IF h.msg_type = 0 THEN Obj(json.obj)
                                        ELSE IF h.msg_type = 1 THEN Str(text.chars)
                                        ELSE Bytes(payload),
                            type |-> h.msg_type,
                            timestamp |-> h.timestamp]]

\* variant: an out-of-order id is logged but the counter is not moved to it
ListenerBody_noResync(msg, rx) ==
    IF msg.text
    THEN [verdict |-> "drop", rx |-> rx, log |-> {"text"}, args |-> NoCall]
    ELSE IF Len(msg.data) <= HeaderSize
    THEN [verdict |-> "drop", rx |-> rx, log |-> {"size"}, args |-> NoCall]
    ELSE LET h == DecodeHeader(msg.data)
             msgPayloadSize == Len(msg.data) - HeaderSize
             payload == SubSeq(msg.data, HeaderSize + 1, Len(msg.data))
             next_rx == rx + 1
             log == (IF h.msg_id # rx THEN {"out_of_order"} ELSE {})
                       \cup (IF h.payload_size # msgPayloadSize
                             THEN {"payload_size"} ELSE {})
             json == JsonLoads(payload)
             text == Utf8Decode(payload)
         IN IF h.magic_number # Magic
            THEN [verdict |-> "drop", rx |-> rx, log |-> {"magic"},
                  args |-> NoCall]
            ELSE IF h.msg_type = 0 /\ ~json.ok
            THEN [verdict |-> "raise", rx |-> next_rx, log |-> log,
                  args |-> NoCall]
            ELSE IF h.msg_type = 1 /\ ~text.ok
            THEN [verdict |-> "raise", rx |-> next_rx, log |-> log,
                  args |-> NoCall]
            ELSE [verdict |-> "call",
                  rx |-> next_rx,
                  log |-> log,
                  args |-> [payload |-> IF h.msg_type = 0 THEN Obj(json.obj)
                                        ELSE IF h.msg_type = 1 THEN Str(text.chars)
                                        ELSE Bytes(payload),
                            type |-> h.msg_type,
                            timestamp |-> h.timestamp]]

\* one pass of the listener loop over the received message `msg` with
\* msg_count_rx = rx: what becomes of the message, the counter afterwards,
\* what the pass logs and the arguments of the on_message call
ListenerBody(msg, rx) ==
    IF msg.text
    THEN [verdict |-> "drop", rx |-> rx, log |-> {"text"}, args |-> NoCall]
    ELSE IF Len(msg.data) <= HeaderSize
    THEN [verdict |-> "drop", rx |-> rx, log |-> {"size"}, args |-> NoCall]
    ELSE LET h == DecodeHeader(msg.data)
             msgPayloadSize == Len(msg.data) - HeaderSize
             payload == SubSeq(msg.data, HeaderSize + 1, Len(msg.data))
             next_rx == (IF h.msg_id # rx THEN h.msg_id ELSE rx) + 1
             log == (IF h.msg_id # rx THEN {"out_of_order"} ELSE {})
                       \cup (IF h.payload_size # msgPayloadSize
                             THEN {"payload_size"} ELSE {})
             json == JsonLoads(payload)
             text == Utf8Decode(payload)
         IN IF h.magic_number # Magic
            THEN [verdict |-> "drop", rx |-> rx, log |-> {"magic"},
                  args |-> NoCall]
            ELSE IF h.msg_type = 0 /\ ~json.ok
            THEN [verdict |-> "raise", rx |-> next_rx, log |-> log,
                  args |-> NoCall]
            ELSE IF h.msg_type = 1 /\ ~text.ok
            THEN [verdict |-> "raise", rx |-> next_rx, log |-> log,
                  args |-> NoCall]
            ELSE [verdict |-> "call",
                  rx |-> next_rx,
                  log |-> log,
                  args |-> [payload |-> IF h.msg_type = 0 THEN Obj(json.obj)
                                        ELSE IF h.msg_type = 1 THEN Str(text.chars)
                                        ELSE Bytes(payload),
                            type |-> h.msg_type,
                            timestamp |-> h.timestamp]]

Conns == {1, 2}

\* on_websocket: a connection is accepted and its listener thread started
Accept(c) ==
    /\ listener[c] = "none"
    /\ listener' = [listener EXCEPT ![c] = "alive"]
    /\ UNCHANGED <<msg_count_rx, inbox, calls, lastCall, rxLog, nRecv>>
    /\ UNCHANGED chatVars
    /\ UNCHANGED txVars

\* the client of an accepted connection sends one message
ClientSend(c, msg) ==
    /\ listener[c] # "none"
    /\ nRecv < MaxRecv
    /\ \A d \in Conns : inbox[d] = <<>>
    /\ nRecv' = nRecv + 1
    /\ inbox' = [inbox EXCEPT ![c] = Append(@, msg)]
    /\ UNCHANGED <<msg_count_rx, listener, calls, lastCall, rxLog>>
    /\ UNCHANGED chatVars
    /\ UNCHANGED txVars

\* msg = websocket.recv() and one pass of the loop; handler_ok is whether
\* on_message returns (it raises otherwise). An exception ends the thread.
websocket_listener(c, handler_ok) ==
    /\ listener[c] = "alive"
    /\ inbox[c] # <<>>
    /\ inbox' = [inbox EXCEPT ![c] = Tail(@)]
    /\ LET r == ListenerBody(Head(inbox[c]), msg_count_rx)
       IN /\ msg_count_rx' = r.rx
          /\ rxLog' = r.log
          /\ IF r.verdict = "call"
             THEN /\ calls' = calls + 1
                  /\ lastCall' = r.args
                  /\ listener' = [listener EXCEPT ![c] =
                                     IF handler_ok THEN "alive" ELSE "dead"]
             ELSE /\ UNCHANGED <<calls, lastCall>>
                  /\ listener' = [listener EXCEPT ![c] =
                        IF r.verdict = "raise" THEN "dead" ELSE "alive"]
    /\ UNCHANGED nRecv
    /\ UNCHANGED chatVars
    /\ UNCHANGED txVars

\* the websocket closes: recv() raises ConnectionClosed in the listener
ConnectionClosed(c) ==
    /\ listener[c] = "alive"
    /\ inbox[c] = <<>>
    /\ listener' = [listener EXCEPT ![c] = "dead"]
    /\ UNCHANGED <<msg_count_rx, inbox, calls, lastCall, rxLog, nRecv>>
    /\ UNCHANGED chatVars
    /\ UNCHANGED txVars

\* what a client may send
Timestamps == {5, 70000}
SendPayloads == {Str(<<>>), Str(<<104>>), Str(<<104, 233>>),
                 Bytes(<<>>), Bytes(<<255>>), Obj(1), Obj(2)}

Binary(data) == [text |-> FALSE, data |-> data]

\* frames built the way send_message builds them
SentFrames ==
    {Binary(send_message(p, -1, ts, id).frame) :
        p \in SendPayloads, ts \in Timestamps, id \in 0..MaxMsgId}

\* frames with a wrong magic number, with and without a payload
BadMagicFrames ==
    {Binary(EncodeFrame(id, 5, 7, 1, Len(p), p)) :
        id \in 0..MaxMsgId, p \in {<<>>, <<104>>}}

\* frames whose payload_size field is not the number of payload bytes
MismatchFrames ==
    {Binary(EncodeFrame(id, 5, Magic, tp[1], Len(tp[2]) + 1, tp[2])) :
        id \in 0..MaxMsgId,
        tp \in {<<2, <<255>>>>, <<1, <<104>>>>, <<1, <<255>>>>, <<0, JsonText[1]>>}}

\* frames whose payload does not decode as their type says
UndecodableFrames ==
    {Binary(EncodeFrame(id, 5, Magic, tp[1], Len(tp[2]), tp[2])) :
        id \in 0..MaxMsgId, tp \in {<<0, <<123>>>>, <<1, <<255>>>>}}

ClientMessages ==
    SentFrames \cup BadMagicFrames \cup MismatchFrames \cup UndecodableFrames
        \cup {Binary(<<1, 2, 3>>), [text |-> TRUE, data |-> <<104>>]}

\* ------------------------- src/web/server.py: send_message / on_websocket
\* the threads that call send_message (the chat loop, a message handler)
Callers == {1, 2}

MaxSends == 2

Idle == [pc |-> "idle", frame |-> <<>>, payload |-> Bytes(<<>>), type |-> -1,
         tmp |-> 0]

NoItem == [n |-> 0, frame |-> <<>>]

rxRest == <<msg_count_rx, inbox, calls, lastCall, rxLog, nRecv>>

\* the frames still on ws_queue, held by a sender thread or put on the wire
\* carry n, the ordinal of their ws_queue.put()

\* send_message up to the evaluation of the arguments of ws_queue.put():
\* the type is inferred, the payload converted to bytes and the header packed
\* with the msg_count_tx read at this point. bytes(payload) raising TypeError
\* ends the call.
SendBegin(t, payload, type, timestamp) ==
    /\ caller[t].pc = "idle"
    /\ nSends < MaxSends
    /\ nSends' = nSends + 1
    /\ LET r == send_message(payload, type, timestamp, msg_count_tx)
       IN IF r.ok
          THEN /\ caller' = [caller EXCEPT ![t] =
                     [pc |-> "put", frame |-> r.frame, payload |-> payload,
                      type |-> type, tmp |-> 0]]
               /\ txError' = ""
          ELSE /\ txError' = "TypeError"
               /\ UNCHANGED caller
    /\ UNCHANGED <<msg_count_tx, ws_queue, sender, held, wsOpen, wire, lost,
                   enqLog, acceptMark, acceptedAfter>>
    /\ UNCHANGED rxVars
    /\ UNCHANGED chatVars

\* the connections whose on_websocket thread is in its send loop, websocket open
Live == {c \in Conns : wsOpen[c] /\ sender[c] \in {"get", "send"}}

\* self.ws_queue.put(frame): never blocks, the queue is unbounded
SendPut(t) ==
    /\ caller[t].pc = "put"
    /\ ws_queue' = Append(ws_queue, [n |-> Len(enqLog) + 1,
                                     frame |-> caller[t].frame])
    /\ enqLog' = Append(enqLog, [frame |-> caller[t].frame,
                                 payload |-> caller[t].payload,
                                 type |-> caller[t].type,
                                 live |-> Live])
    /\ caller' = [caller EXCEPT ![t].pc = "load"]
    /\ UNCHANGED <<msg_count_tx, sender, held, wsOpen, wire, lost,
                   acceptMark, acceptedAfter,
                   nSends, txError>>
    /\ UNCHANGED rxVars
    /\ UNCHANGED chatVars

\* self.msg_count_tx += 1, first half: the attribute is loaded
SendLoad(t) ==
    /\ caller[t].pc = "load"
    /\ caller' = [caller EXCEPT ![t].pc = "store", ![t].tmp = msg_count_tx]
    /\ UNCHANGED <<msg_count_tx, ws_queue, sender, held, wsOpen, wire, lost,
                   enqLog, acceptMark, acceptedAfter, nSends, txError>>
    /\ UNCHANGED rxVars
    /\ UNCHANGED chatVars

\* self.msg_count_tx += 1, second half: the sum is stored; the call returns
SendStore(t) ==
    /\ caller[t].pc = "store"
    /\ msg_count_tx' = caller[t].tmp + 1
    /\ caller' = [caller EXCEPT ![t] = Idle]
    /\ UNCHANGED <<ws_queue, sender, held, wsOpen, wire, lost, enqLog,
                   acceptMark, acceptedAfter, nSends, txError>>
    /\ UNCHANGED rxVars
    /\ UNCHANGED chatVars

\* a client connects: on_websocket is called in a thread of its own
Connect(c) ==
    /\ sender[c] = "none"
    /\ sender' = [sender EXCEPT ![c] = "drain"]
    /\ wsOpen' = [wsOpen EXCEPT ![c] = TRUE]
    /\ acceptMark' = [acceptMark EXCEPT ![c] = Len(enqLog)]
    /\ acceptedAfter' = [acceptedAfter EXCEPT ![c] =
                            {d \in Conns : sender[d] # "none" /\ ~wsOpen[d]}]
    /\ UNCHANGED <<msg_count_tx, ws_queue, caller, held, wire, lost, enqLog,
                   nSends, txError>>
    /\ UNCHANGED rxVars
    /\ UNCHANGED chatVars

\* variant: on_websocket without the loop that empties the queue
DrainStep_skip(q) == [empty |-> TRUE, q |-> q]

\* one pass of `while True: try: ws_queue.get(block=False)
\*                          except queue.Empty: break`
DrainStep(q) ==
    IF q = <<>> THEN [empty |-> TRUE, q |-> q]
    ELSE [empty |-> FALSE, q |-> Tail(q)]

\* on_websocket empties the queue, then starts the listener thread and
\* enters its send loop
Drain(c) ==
    /\ sender[c] = "drain"
    /\ LET r == DrainStep(ws_queue)
       IN /\ ws_queue' = r.q
          /\ IF r.empty
             THEN /\ sender' = [sender EXCEPT ![c] = "get"]
                  /\ listener' = [listener EXCEPT ![c] =
                                     IF wsOpen[c] THEN "alive" ELSE "dead"]
             ELSE UNCHANGED <<sender, listener>>
    /\ UNCHANGED <<msg_count_tx, caller, held, wsOpen, wire, lost, enqLog,
                   acceptMark, acceptedAfter, nSends, txError>>
    /\ UNCHANGED rxRest
    /\ UNCHANGED chatVars

\* variant: a queue that hands out the newest frame first
QueueGet_lifo(q) ==
    [item |-> q[Len(q)], rest |-> SubSeq(q, 1, Len(q) - 1)]

\* queue.Queue.get() on a non-empty queue: first in, first out
QueueGet(q) == [item |-> Head(q), rest |-> Tail(q)]

\* self.ws_queue.get() in the send loop: blocks while the queue is empty
Get(c) ==
    /\ sender[c] = "get"
    /\ ws_queue # <<>>
    /\ LET r == QueueGet(ws_queue)
       IN /\ held' = [held EXCEPT ![c] = r.item]
          /\ ws_queue' = r.rest
    /\ sender' = [sender EXCEPT ![c] = "send"]
    /\ UNCHANGED <<msg_count_tx, caller, wsOpen, wire, lost, enqLog,
                   acceptMark, acceptedAfter, nSends, txError>>
    /\ UNCHANGED rxVars
    /\ UNCHANGED chatVars

\* websocket.send(frame): the frame goes out, or ConnectionClosed is raised
\* on a closed websocket and ends the thread
Transmit(c) ==
    /\ sender[c] = "send"
    /\ IF wsOpen[c]
       THEN /\ wire' = [wire EXCEPT ![c] = Append(@, held[c])]
            /\ sender' = [sender EXCEPT ![c] = "get"]
            /\ UNCHANGED lost
       ELSE /\ lost' = lost \cup {[n |-> held[c].n, by |-> c]}
            /\ sender' = [sender EXCEPT ![c] = "ended"]
            /\ UNCHANGED wire
    /\ held' = [held EXCEPT ![c] = NoItem]
    /\ UNCHANGED <<msg_count_tx, ws_queue, caller, wsOpen, enqLog,
                   acceptMark, acceptedAfter,
                   nSends, txError>>
    /\ UNCHANGED rxVars
    /\ UNCHANGED chatVars

\* the client goes away: the websocket closes, recv() raises in the listener
Disconnect(c) ==
    /\ wsOpen[c]
    /\ wsOpen' = [wsOpen EXCEPT ![c] = FALSE]
    /\ listener' = [listener EXCEPT ![c] = IF @ = "alive" THEN "dead" ELSE @]
    /\ UNCHANGED <<msg_count_tx, ws_queue, caller, sender, held, wire, lost,
                   enqLog, acceptMark, acceptedAfter, nSends, txError>>
    /\ UNCHANGED rxRest
    /\ UNCHANGED chatVars

\* the call of the transport model: a reply chunk, send_message(token)
TxCalls == {<<Str(<<104>>), -1>>}

\* explicit types a caller passes (-1 stands for None)
SendTypes == {-1, 0, 1, 2}

Init ==
    /\ pc = "prompt"
    /\ no_streaming \in BOOLEAN
    /\ interrupt_chat = FALSE
    /\ last_interrupt = 0
    /\ embedding = <<>>
    /\ position = 0
    /\ output = NoSession
    /\ bot_reply = 0
    /\ error = ""
    /\ entries = <<>>
    /\ embedCursor = 0
    /\ kv_cache = NoCache
    \* perf_counter() has no defined origin: just started, or long running
    /\ clock \in {0, Debounce + 1}
    /\ nInterrupts = 0
    /\ turns = 0
    /\ preGen = [entries |-> <<>>, embedCursor |-> 0, kv_cache |-> NoCache]
    /\ produced = <<>>
    /\ abortAt = NoAbort
    /\ msg_count_rx = 0
    /\ listener = [c \in Conns |-> "none"]
    /\ inbox = [c \in Conns |-> <<>>]
    /\ calls = 0
    /\ lastCall = NoCall
    /\ rxLog = {}
    /\ nRecv = 0
    /\ msg_count_tx = 0
    /\ ws_queue = <<>>
    /\ caller = [t \in Callers |-> Idle]
    /\ sender = [c \in Conns |-> "none"]
    /\ held = [c \in Conns |-> NoItem]
    /\ wsOpen = [c \in Conns |-> FALSE]
    /\ wire = [c \in Conns |-> <<>>]
    /\ lost = {}
    /\ enqLog = <<>>
    /\ acceptMark = [c \in Conns |-> 0]
    /\ acceptedAfter = [c \in Conns |-> {}]
    /\ nSends = 0
    /\ txError = ""

vars == <<chatVars, rxVars, txVars>>

Next ==
    \/ on_interrupt
    \/ Tick
    \/ PromptsExhausted
    \/ PromptReset
    \/ PromptFileMissing
    \/ PromptMessage
    \/ MainEmbed
    \/ GenerateFails
    \/ GenerateStreaming
    \/ GenerateBlocking
    \/ PullToken
    \/ PullStop
    \/ PullFails
    \/ CheckInterrupt
    \/ WriteBack

Spec == Init /\ [][Next]_vars

\* the receive side of the web server alone
RxInit == Init /\ ~no_streaming /\ clock = 0

RxNext ==
    \/ \E c \in Conns : Accept(c)
    \/ \E c \in Conns : \E msg \in ClientMessages : ClientSend(c, msg)
    \/ \E c \in Conns : \E handler_ok \in BOOLEAN : websocket_listener(c, handler_ok)
    \/ \E c \in Conns : ConnectionClosed(c)

SpecRx == RxInit /\ [][RxNext]_vars


\* the send side of the web server: callers of send_message, connections
\* coming and going
TxInit == Init /\ ~no_streaming /\ clock = 0

TxNext ==
    \/ \E t \in Callers : \E call \in TxCalls :
          SendBegin(t, call[1], call[2], 5)
    \/ \E t \in Callers : SendPut(t)
    \/ \E t \in Callers : SendLoad(t)
    \/ \E t \in Callers : SendStore(t)
    \/ \E c \in Conns : Connect(c)
    \/ \E c \in Conns : Drain(c)
    \/ \E c \in Conns : Get(c)
    \/ \E c \in Conns : Transmit(c)
    \/ \E c \in Conns : Disconnect(c)

SpecTx == TxInit /\ [][TxNext]_vars

\* send_message called from one thread, with every payload shape and type
SendNext ==
    \/ \E payload \in SendPayloads : \E type \in SendTypes :
       \E timestamp \in Timestamps : SendBegin(1, payload, type, timestamp)
    \/ SendPut(1)
    \/ SendLoad(1)
    \/ SendStore(1)

SpecSend == TxInit /\ [][SendNext]_vars

\* ------------------------------------- the conversation store, driven freely
\* (every order of append / fill-in / embed / write-back / reset)
MaxEntries == 3
MaxParts == 2

loopVars == <<pc, no_streaming, interrupt_chat, last_interrupt, output,
              bot_reply, clock, nInterrupts, turns, preGen, produced>>

\* the harness keeps the result of the last call only: embedding, position
\* and error are what the most recent embed() returned or raised
NoResult ==
    /\ embedding' = <<>> /\ position' = 0 /\ error' = ""
    /\ UNCHANGED loopVars
    /\ UNCHANGED rxVars
    /\ UNCHANGED txVars
    /\ UNCHANGED abortAt

StoreAppend ==
    /\ \E role \in {"user", "bot"} :
       \E part \in {ImagePart} \cup {TextPart(t) : t \in UserTexts \cup {<<>>}} :
          /\ role = "bot" <=> part.val = <<>>
          /\ entries' = append(entries, role, part)
          /\ Len(entries') <= MaxEntries
          /\ Len(entries'[Len(entries')].parts) <= MaxParts
    /\ NoResult
    /\ UNCHANGED <<embedCursor, kv_cache>>

\* a text update through the reference append returned (streaming fill-in)
StoreFill ==
    /\ entries # <<>>
    /\ entries[Len(entries)].role = "bot"
    /\ Len(EntryText(entries[Len(entries)])) < MaxNewTokens
    /\ entries' = ConsumeToken(entries, Len(entries), "A")
    /\ NoResult
    /\ UNCHANGED <<embedCursor, kv_cache>>

StoreEmbed ==
    /\ LET r == embed_chat(entries, embedCursor)
       IN IF r.ok
          THEN /\ embedding' = r.embedding
               /\ position' = r.position
               /\ embedCursor' = r.cursor
               /\ error' = ""
          ELSE /\ error' = "IncompleteEntry"
               /\ UNCHANGED <<embedding, position, embedCursor>>
    /\ UNCHANGED <<entries, kv_cache>>
    /\ UNCHANGED loopVars
    /\ UNCHANGED rxVars
    /\ UNCHANGED txVars
    /\ UNCHANGED abortAt

\* the cache handle returned by a generation over the embedded conversation
StoreWriteBack ==
    /\ kv_cache = NoCache
    /\ entries # <<>>
    /\ embedCursor = Len(entries)
    /\ kv_cache' = [gen |-> 1, len |-> Len(EmbedRange(entries, 0))]
    /\ NoResult
    /\ UNCHANGED <<entries, embedCursor>>

StoreReset ==
    /\ entries' = reset.entries
    /\ embedCursor' = reset.embedCursor
    /\ kv_cache' = reset.kv_cache
    /\ NoResult

StoreNext ==
    \/ StoreAppend
    \/ StoreFill
    \/ StoreEmbed
    \/ StoreWriteBack
    \/ StoreReset

StoreInit == Init /\ ~no_streaming /\ clock = 0

SpecStore == StoreInit /\ [][StoreNext]_vars

\* ------------------------------------ one generation session, driven freely
\* (start, pull, end of sequence, backend failure, and cancel() at any time,
\* any number of times; nInterrupts counts the cancel() calls)
sessRest == <<pc, no_streaming, interrupt_chat, last_interrupt, position,
              bot_reply, error, entries, embedCursor, kv_cache, clock, turns,
              preGen>>

\* a new session is started once the previous one is over
SessStart ==
    /\ output.state \in {"None"} \cup Terminal
    /\ output.gen < MaxTurns
    /\ \E emb \in UserTexts :
          /\ embedding' = emb
          /\ output' = SessionStart(output.gen + 1, emb, kv_cache)
    /\ produced' = <<>>
    /\ UNCHANGED nInterrupts
    /\ UNCHANGED sessRest
    /\ UNCHANGED rxVars
    /\ UNCHANGED txVars
    /\ UNCHANGED abortAt

\* the consumer pulls and the backend yields a token
SessPull ==
    /\ output.state = "Streaming"
    /\ Len(output.out) < MaxNewTokens
    /\ \E tok \in Tokens :
          /\ output' = SessionToken(output, tok)
          /\ produced' = Append(produced, tok)
    /\ UNCHANGED <<embedding, nInterrupts>>
    /\ UNCHANGED sessRest
    /\ UNCHANGED rxVars
    /\ UNCHANGED txVars
    /\ UNCHANGED abortAt

\* the consumer pulls and the sequence is over
SessEnd ==
    /\ output.state = "Streaming"
    /\ output' = SessionComplete(output)
    /\ UNCHANGED <<embedding, nInterrupts, produced>>
    /\ UNCHANGED sessRest
    /\ UNCHANGED rxVars
    /\ UNCHANGED txVars
    /\ UNCHANGED abortAt

\* the consumer pulls and the backend raises
SessFail ==
    /\ output.state = "Streaming"
    /\ output' = SessionFail(output)
    /\ UNCHANGED <<embedding, nInterrupts, produced>>
    /\ UNCHANGED sessRest
    /\ UNCHANGED rxVars
    /\ UNCHANGED txVars
    /\ UNCHANGED abortAt

\* cancel() is called, in whatever state the session is
SessCancel ==
    /\ output.state # "None"
    /\ nInterrupts < MaxInterrupts
    /\ nInterrupts' = nInterrupts + 1
    /\ output' = SessionStop(output)
    /\ UNCHANGED <<embedding, produced>>
    /\ UNCHANGED sessRest
    /\ UNCHANGED rxVars
    /\ UNCHANGED txVars
    /\ UNCHANGED abortAt

SessNext ==
    \/ SessStart
    \/ SessPull
    \/ SessEnd
    \/ SessFail
    \/ SessCancel

SessInit == Init /\ ~no_streaming /\ clock = 0

SpecSession == SessInit /\ [][SessNext]_vars

\* ------------------------- the chat loop from the call of model.generate()
\* for the last prompt: one user entry, embedded, no prompt left to read
GenInit ==
    /\ pc = "generate"
    /\ no_streaming \in BOOLEAN
    /\ interrupt_chat = FALSE
    /\ last_interrupt = 0
    /\ \E text \in UserTexts :
          /\ entries = append(<<>>, "user", TextPart(text))
          /\ embedding = embed_chat(entries, 0).embedding
          /\ position = embed_chat(entries, 0).position
          /\ embedCursor = embed_chat(entries, 0).cursor
    /\ output = NoSession
    /\ bot_reply = 0
    /\ error = ""
    /\ kv_cache = NoCache
    /\ clock \in {0, Debounce + 1}
    /\ nInterrupts = 0
    /\ turns = MaxTurns
    /\ preGen = [entries |-> <<>>, embedCursor |-> 0, kv_cache |-> NoCache]
    /\ produced = <<>>
    /\ abortAt = NoAbort
    /\ msg_count_rx = 0
    /\ listener = [c \in Conns |-> "none"]
    /\ inbox = [c \in Conns |-> <<>>]
    /\ calls = 0
    /\ lastCall = NoCall
    /\ rxLog = {}
    /\ nRecv = 0
    /\ msg_count_tx = 0
    /\ ws_queue = <<>>
    /\ caller = [t \in Callers |-> Idle]
    /\ sender = [c \in Conns |-> "none"]
    /\ held = [c \in Conns |-> NoItem]
    /\ wsOpen = [c \in Conns |-> FALSE]
    /\ wire = [c \in Conns |-> <<>>]
    /\ lost = {}
    /\ enqLog = <<>>
    /\ acceptMark = [c \in Conns |-> 0]
    /\ acceptedAfter = [c \in Conns |-> {}]
    /\ nSends = 0
    /\ txError = ""

GenNext ==
    \/ on_interrupt
    \/ Tick
    \/ GenerateFails
    \/ GenerateStreaming
    \/ GenerateBlocking
    \/ PullToken
    \/ PullStop
    \/ PullFails
    \/ CheckInterrupt
    \/ WriteBack
    \/ PromptsExhausted

\* the main thread keeps running: the for loop goes on pulling, and the
\* statements after a pull are executed
SpecGen ==
    /\ GenInit
    /\ [][GenNext]_vars
    /\ WF_vars(PullToken \/ PullStop \/ PullFails)
    /\ WF_vars(CheckInterrupt)

\* ===================================================================== claims

C2_CancelKeepsTokens ==
    /\ [](output.state = "Cancelled" /\ pc = "writeback" =>
            /\ Len(produced) >= 1
            /\ output.out = produced
            /\ EntryText(entries[bot_reply]) = produced)
    /\ [][ pc = "check" /\ interrupt_chat /\ pc' = "writeback" =>
            output'.state = "Cancelled" ]_vars
    /\ [][ pc = "writeback" /\ pc' = "prompt" /\ output.state = "Cancelled" =>
            /\ EntryText(entries'[bot_reply]) = produced
            /\ output' = output ]_vars

\* cancelled after two tokens, the reply written back
C2_Witness ==
    /\ output.state = "Cancelled"
    /\ Len(produced) = 2
    /\ pc = "prompt"
    /\ kv_cache = output.kv_cache

\* C3 (as claimed): the step that ends the turn of a generation that ended
\* Completed or Cancelled leaves the store's cache handle equal to the handle
\* that session exposes, and the cache handle is only ever replaced by the
\* handle of a session that has reached a terminal state.
C3_WriteBackAfterGeneration ==
    /\ [][ /\ pc = "writeback"
           /\ pc' \notin {"writeback", "exited"}
           /\ output.state \in {"Completed", "Cancelled"}
           => kv_cache' = FinalHandle(output) /\ pc' = "prompt" ]_vars
    /\ [][ kv_cache' # kv_cache /\ kv_cache' # NoCache =>
             output.state \in Terminal /\ kv_cache' = output.kv_cache ]_vars

\* C4 (as claimed): once the backend has failed, the session is Failed, no
\* cache handle was written back and entries, embedCursor and cacheHandle
\* are what they were when the generation began.
C4_FailureLeavesConversation ==
    error = "BackendError" =>
        /\ output.state = "Failed"
        /\ kv_cache = preGen.kv_cache
        /\ Conversation = preGen

\* C5: a successful embed() leaves embedCursor at the conversation length;
\* the returned chunk is the embedding of exactly the entries after the old
\* cursor, in entry order (what was embedded before followed by the chunk is
\* the embedding of the whole conversation); and embed() called again at
\* once returns an empty increment.
C5_EmbedIncrement ==
    [][ StoreEmbed /\ error' = "" =>
          /\ embedCursor' = Len(entries)
          /\ EmbedRange(SubSeq(entries, 1, embedCursor), 0) \o embedding'
                = EmbedRange(entries, 0)
          /\ Len(embedding') =
                Len(EmbedRange(entries, 0))
                  - Len(EmbedRange(SubSeq(entries, 1, embedCursor), 0))
          /\ LET again == embed_chat(entries', embedCursor')
             IN again.ok /\ again.embedding = <<>>
                /\ again.cursor = embedCursor' ]_vars

\* a second embed() returned a non-empty increment that starts after an
\* already embedded, non-empty prefix
C5_Witness ==
    /\ error = ""
    /\ embedding # <<>>
    /\ position > 0
    /\ embedCursor = Len(entries)
    /\ Len(entries) >= 2

\* C6: no image-only entry is ever behind the embed cursor, none exists while
\* the loop is embedding or generating, embed() on a conversation whose tail
\* is image-only fails and leaves the cursor alone, and IncompleteEntry never
\* ends the chat loop.
TailImageOnly == entries # <<>> /\ ImageOnly(entries[Len(entries)])

C6_ImageOnlyNeverEmbedded ==
    /\ \A i \in 1..Len(entries) : i <= embedCursor => ~ImageOnly(entries[i])
    /\ pc \in {"embed", "generate", "stream", "check", "writeback"} =>
          \A i \in 1..Len(entries) : ~ImageOnly(entries[i])
    /\ TailImageOnly =>
          LET r == embed_chat(entries, embedCursor)
          IN ~r.ok /\ r.cursor = embedCursor /\ embedCursor < Len(entries)
    /\ error # "IncompleteEntry"

\* an entry that was image-only got its text part and was then embedded
C6_Witness ==
    \E i \in 1..Len(entries) :
        /\ i <= embedCursor
        /\ HasImage(entries[i])
        /\ HasText(entries[i])

\* C7: the history is never empty while a cache handle is held, and embed()
\* on the empty conversation a reset leaves returns an empty embedding at
\* position 0.
C7_ResetAtomic ==
    entries = <<>> =>
        /\ kv_cache = NoCache
        /\ embedCursor = 0
        /\ LET r == embed_chat(entries, embedCursor)
           IN r.ok /\ r.embedding = <<>> /\ r.position = 0

\* a reset after a generation whose handle had been written back
C7_Witness ==
    /\ entries = <<>>
    /\ turns >= 2
    /\ output.state \in {"Completed", "Cancelled"}
    /\ output.kv_cache # NoCache
    /\ pc = "prompt"

\* a pass of connection c's listener over the message at the head of its inbox
Recv(c) ==
    /\ listener[c] = "alive"
    /\ inbox[c] # <<>>
    /\ inbox'[c] = Tail(inbox[c])

IsFrame(msg) == ~msg.text /\ Len(msg.data) >= HeaderSize

\* C8 (as claimed): every frame built by send_message, of any payload size
\* (0 included), is decoded by the listener and handed to on_message with the
\* same type, timestamp and payload, and its sequence_id is the one decoded.
C8_RoundTrip ==
    [][ \A c \in Conns : \A p \in SendPayloads :
        \A ts \in Timestamps : \A id \in 0..MaxMsgId :
          LET sent == send_message(p, -1, ts, id)
          IN Recv(c) /\ Head(inbox[c]) = Binary(sent.frame) =>
               /\ calls' = calls + 1
               /\ lastCall' = [payload |-> p, type |-> sent.type,
                               timestamp |-> ts]
               /\ msg_count_rx' = id + 1 ]_vars

\* C9: a frame whose magic field is not 42 is not handed to on_message,
\* leaves the listener running and leaves msg_count_rx as it was, whatever
\* its sequence_id.
C9_BadMagicRejected ==
    [][ \A c \in Conns :
          Recv(c) /\ IsFrame(Head(inbox[c]))
                  /\ DecodeHeader(Head(inbox[c]).data).magic_number # Magic =>
               /\ calls' = calls
               /\ lastCall' = lastCall
               /\ listener'[c] = "alive"
               /\ msg_count_rx' = msg_count_rx ]_vars

\* a frame with a payload and a wrong magic number was dropped for its magic
\* number, after an earlier frame had been delivered
C9_Witness ==
    /\ rxLog = {"magic"}
    /\ calls = 1
    /\ msg_count_rx > 0
    /\ \E c \in Conns : listener[c] = "alive" /\ inbox[c] = <<>>

\* the frames C10 is about: valid magic, longer than the header, and a
\* payload_size field that is not the number of bytes after the header
SizeMismatch(msg) ==
    /\ ~msg.text
    /\ Len(msg.data) > HeaderSize
    /\ DecodeHeader(msg.data).magic_number = Magic
    /\ DecodeHeader(msg.data).payload_size # Len(msg.data) - HeaderSize

C11_ListenerSurvives ==
    [][ \A c \in Conns : Recv(c) => listener'[c] = "alive" ]_vars

\* the frames C20 is about: valid magic, longer than the header
Accepted(msg) ==
    /\ ~msg.text
    /\ Len(msg.data) > HeaderSize
    /\ DecodeHeader(msg.data).magic_number = Magic

Decodable(msg) ==
    LET h == DecodeHeader(msg.data)
        payload == SubSeq(msg.data, HeaderSize + 1, Len(msg.data))
    IN CASE h.msg_type = 0 -> JsonLoads(payload).ok
         [] h.msg_type = 1 -> Utf8Decode(payload).ok
         [] OTHER -> TRUE

EnqId(i) == DecodeHeader(enqLog[i].frame).msg_id

\* C12 (as claimed): whatever the interleaving of send_message calls, the
\* frames put on ws_queue carry sequence_ids that increase by exactly one
\* from each frame to the next in enqueue order (none repeated, none skipped).
C12_SequenceIds ==
    \A i \in 1..(Len(enqLog) - 1) : EnqId(i + 1) = EnqId(i) + 1

\* C13: on every connection, the frames transmitted were transmitted in the
\* order of their ws_queue.put().
C13_WireOrder ==
    \A c \in Conns : \A i, j \in 1..Len(wire[c]) :
        i < j => wire[c][i].n < wire[c][j].n

\* two frames enqueued while a connection was in its send loop have both
\* gone out on it
C13_Witness ==
    \E c \in Conns :
        /\ Len(wire[c]) = 2
        /\ enqLog[1].live = {c}
        /\ enqLog[2].live = {c}

OnWire(c, n) == \E i \in 1..Len(wire[c]) : wire[c][i].n = n

InQueue(n) == \E i \in 1..Len(ws_queue) : ws_queue[i].n = n

\* C14 (as claimed): a frame enqueued while two or more connections were in
\* their send loops, all of them still open, that went out on one of them has
\* gone out on each of the others or is still to be sent there (on the queue
\* or in the hands of that connection's thread).
C14_Broadcast ==
    \A n \in 1..Len(enqLog) :
        LET L == enqLog[n].live
        IN Cardinality(L) >= 2 /\ L \subseteq Live =>
             \A c, d \in L :
                OnWire(c, n) => OnWire(d, n) \/ held[d].n = n \/ InQueue(n)

\* C15: no frame put on ws_queue before a connection was accepted is ever
\* transmitted on that connection, or taken off the queue by its send loop.
C15_NoStaleFrames ==
    \A c \in Conns :
        /\ \A i \in 1..Len(wire[c]) : wire[c][i].n > acceptMark[c]
        /\ sender[c] = "send" => held[c].n > acceptMark[c]

\* a connection accepted with a frame waiting on the queue has transmitted
\* a later frame
C15_Witness ==
    \E c \in Conns :
        /\ acceptMark[c] = 1
        /\ enqLog[1].live = {}
        /\ Len(wire[c]) = 1
        /\ wire[c][1].n = 2

\* C16 (as claimed): a frame enqueued while a connection is in its send loop
\* that was accepted after another connection had closed is not taken off
\* the queue and lost by the thread of the closed connection, as long as the
\* later connection stays open.
C16_NoLossToClosedConnection ==
    \A l \in lost : \A c \in enqLog[l.n].live :
        ~(l.by \in acceptedAfter[c] /\ wsOpen[c])

C18_SessionStateMachine ==
    [][ /\ output'.gen = output.gen /\ output.state \in Terminal =>
               /\ output' = output
               /\ produced' = produced
        /\ output'.gen = output.gen /\ output' # output =>
               /\ output.state = "Streaming"
               /\ output'.state \in {"Streaming"} \cup Terminal
        /\ output'.gen # output.gen =>
               /\ output.state \in {"None"} \cup Terminal
               /\ output'.state = "Streaming"
               /\ output'.out = <<>>
        /\ nInterrupts' = nInterrupts + 1 =>
               /\ output.state = "Streaming" =>
                      /\ output'.state = "Cancelled"
                      /\ output'.out = output.out
                      /\ output'.kv_cache = FinalHandle(output)
               /\ output.state # "Streaming" => output' = output ]_vars

\* cancel() was called twice on a session that had completed with a token
C18_Witness ==
    /\ output.state = "Completed"
    /\ output.out # <<>>
    /\ nInterrupts = 2
    /\ output.kv_cache = FinalHandle(output)

\* C19: a session never holds more than max_new_tokens tokens; Completed or
\* Cancelled, it exposes exactly the tokens produced and the handle that goes
\* with them; and while the chat loop runs (the process has not exited),
\* every Streaming session reaches a terminal state, an abort request or not.
C19_SessionTerminates ==
    /\ [](Len(output.out) <= MaxNewTokens)
    /\ [](output.state \in {"Completed", "Cancelled"} =>
            /\ output.out = produced
            /\ output.kv_cache = FinalHandle(output))
    /\ (output.state = "Streaming") ~>
            (output.state \in Terminal \/ pc = "exited")
    /\ (output.state = "Streaming" /\ interrupt_chat) ~>
            (output.state \in Terminal \/ pc = "exited")

\* the session was cancelled after its first token and the loop has ended
C19_Witness ==
    /\ output.state = "Cancelled"
    /\ Len(output.out) = 1
    /\ turns = MaxTurns
    /\ pc = "done"

\* C21: once interrupt_chat is set while a session is streaming, the session
\* produces at most one further token: the loop looks at the flag after each
\* token it has appended and nowhere else, and when it finds the flag set it
\* stops the session (Cancelled), clears the flag and appends nothing more.
\* While the loop keeps running, a flag found set after a token leads to the
\* Cancelled session (or to the exit a second interrupt asks for).
C21_AbortWithinOneToken ==
    /\ [](abortAt.gen = output.gen => Len(produced) <= abortAt.n + 1)
    /\ [][interrupt_chat /\ pc = "check" /\ pc' \notin {"check", "exited"} =>
            /\ output'.state = "Cancelled"
            /\ produced' = produced
            /\ ~interrupt_chat']_vars
    /\ [][interrupt_chat' # interrupt_chat /\ interrupt_chat =>
            pc = "check"]_vars
    /\ (interrupt_chat /\ pc = "check") ~>
            (output.state = "Cancelled" \/ pc = "exited")

\* the abort request arrived after the first token, one more token was
\* produced and appended, and the session was then cancelled
C21_Witness ==
    /\ output.state = "Cancelled"
    /\ abortAt = [gen |-> output.gen, n |-> 1]
    /\ Len(produced) = 2
    /\ EntryText(entries[bot_reply]) = produced

\* C22: while a session is Streaming no other generation is started, and
\* nothing but the streaming loop itself touches the conversation: the cache
\* handle and the embed cursor are not written, no entry is added or removed,
\* and the only entry whose content changes is the reply being filled.
C22_StreamingExclusive ==
    [][output.state = "Streaming" =>
        /\ output'.gen = output.gen
        /\ kv_cache' = kv_cache
        /\ embedCursor' = embedCursor
        /\ Len(entries') = Len(entries)
        /\ \A i \in 1..Len(entries) :
              i # bot_reply => entries'[i] = entries[i]]_vars

\* the second session is streaming and has produced a token while the
\* handle written back by the first one is the conversation's cache
C22_Witness ==
    /\ output.state = "Streaming"
    /\ output.gen = 2
    /\ Len(produced) >= 1
    /\ kv_cache # NoCache
    /\ Len(entries) = 4

\* C25: interrupt_chat is False whenever a generation starts, so an interrupt
\* delivered while nothing is streaming never cancels a later generation.
C25_FlagClearAtGenerationStart ==
    pc = "generate" => ~interrupt_chat

\* C26: the first interrupt ever delivered is classified as an abort request
\* and never ends the process, whatever the clock reads when it arrives.
C26_FirstInterruptAborts ==
    [][nInterrupts = 0 /\ nInterrupts' = 1 =>
        interrupt_chat' /\ pc' # "exited"]_vars

\* C23: the position embed() returns is the length of what the cache handle
\* already covers (the chunks embedded earlier since the last reset plus the
\* tokens of the sessions whose handle was written back), so the chunk handed
\* to generate() starts where the cache ends.
C23_PositionMatchesCache ==
    pc = "generate" => position = kv_cache.len

\* C24: append adds exactly one entry at the end, or merges the content into
\* the last entry when that entry has the same role and is image-only, the
\* length then unchanged; no step but a reset removes an entry, and no step
\* changes an entry before the last one. The reference append returned for
\* the reply is the stored entry: while the reply streams, the text of that
\* entry in the conversation is the tokens appended through the reference.
C24_AppendFrame ==
    /\ [][entries' # entries /\ entries' # <<>> =>
            LET n == Len(entries)
            IN /\ Len(entries') \in {n, n + 1}
               /\ \A i \in 1..(n - 1) : entries'[i] = entries[i]
               /\ Len(entries') = n + 1 =>
                     /\ n > 0 => entries'[n] = entries[n]
                     /\ Len(entries'[n + 1].parts) = 1
                     /\ ~(/\ n > 0
                          /\ ImageOnly(entries[n])
                          /\ entries[n].role = entries'[n + 1].role)
               /\ Len(entries') = n =>
                     /\ entries'[n].role = entries[n].role
                     /\ \/ /\ ImageOnly(entries[n])
                           /\ Len(entries'[n].parts) = Len(entries[n].parts) + 1
                           /\ SubSeq(entries'[n].parts, 1, Len(entries[n].parts))
                                 = entries[n].parts
                        \/ /\ bot_reply = n
                           /\ entries[n].role = "bot"
                           /\ Len(entries'[n].parts) = Len(entries[n].parts)]_vars
    /\ [](pc \in {"stream", "check"} =>
            /\ bot_reply = Len(entries)
            /\ entries[bot_reply].role = "bot"
            /\ EntryText(entries[bot_reply]) = produced)

\* the user's text was merged into the image-only entry, the reply entry was
\* appended after it and holds the token appended through the reference
C24_Witness ==
    /\ pc = "check"
    /\ Len(entries) = 2
    /\ Len(entries[1].parts) = 2
    /\ HasImage(entries[1]) /\ HasText(entries[1])
    /\ produced # <<>>
    /\ EntryText(entries[2]) = produced

\* frame n is nowhere any more: not in the queue, not in a sender's hands,
\* on no wire and not lost in a failed send, i.e. a queue flush discarded it
FlushedAway(n) ==
    /\ ~InQueue(n)
    /\ \A c \in Conns : held[c].n # n /\ ~OnWire(c, n)
    /\ \A l \in lost : l.n # n

\* C27: accepting a connection takes no frame away from a connection that is
\* already live: a frame enqueued while connection a was in its send loop is
\* not discarded by another connection's queue flush while a stays live.
C27_AcceptKeepsFrames ==
    \A n \in 1..Len(enqLog) : \A a \in enqLog[n].live :
        (a \in Live /\ acceptMark[a] < n) => ~FlushedAway(n)

=============================================================================
